---- MODULE Spec2Model ----
(***************************************************************************)
(* Aquila S1000D-AI: the document-to-data-module conversion pipeline, the  *)
(* validation engine and the front-end handlers that drive them.           *)
(*                                                                         *)
(* The React front end (App.js, Toolbar.js, BREXDesigner) is modelled from *)
(* its source.  The FastAPI backend (pipeline, store, validation endpoint) *)
(* is not among the source files: it is modelled from the specification,   *)
(* and from the repository's README where the README documents it.         *)
(***************************************************************************)
EXTENDS Integers, Sequences, FiniteSets, TLC

\* ------------------------------------------------------------------ bounds
\* Number of pipeline runs the model lets start (re-runs included).
MaxRuns == 2

\* ------------------------------------------------------- universe of values
Docs == {"d1", "d2"}

\* Operational-structure presets the user picks before processing.
Defaults == {"water", "air", "land", "other"}

\* dm_type values of a usable classification.
DmTypes == {"procedural", "descriptive"}

\* The dm_type of an unusable classification (dm_type absent).
MissingType == "none"

GenericType == "generic"

Verbatim == "00"

Simplified == "01"

NoRef == <<>>

NoScore == -1

\* ------------------------------------------------------ provider abstraction
Providers == {"openai", "anthropic", "local"}

\* Provider operations and the side (text or vision) that serves them.
OpKinds == {"classify", "rewrite_ste", "caption"}

Side(kind) == IF kind = "caption" THEN "vision" ELSE "text"

\* Calls that can be in flight together.
OpIds == {"op1", "op2"}

\* A call slot: the operation, the provider reference it captured, and for
\* inspection the provider active at its start, whether the active provider
\* was swapped while it ran, and the provider that served it.
IdleOp == [pc |-> "idle", kind |-> "classify", provider |-> "openai",
           activeAtStart |-> "openai", swapped |-> FALSE,
           servedBy |-> "openai"]

\* ------------------------------------------------------------------- state
\* publishResult before a result is set (null).
NoResult == <<>>

\* No access token stored, no Authorization header set.
NoToken == <<>>

\* ICNs listed in the illustration manager; no ICN selected.
ManagerIcns == {"ICN-A", "ICN-B"}
NoSelection == "none"

VARIABLES
  docList,        \* backend Document store: document ids in upload order
  docStatus,      \* backend Document store: processing_status per document
  documents,      \* App state `documents`: the loaded list of document ids
  uploading,      \* uploadDocument calls in flight
  store,          \* backend DataModule store
  dataModules,    \* App state `dataModules`: the last loaded module list
  run,            \* per document: the pipeline run in progress / last ended
  runsStarted,    \* number of runs started so far
  processing,     \* App state `processing`
  startQ,         \* handleStartProcessing: documents still to submit
  toolbarBusy,    \* Toolbar local state `processing`
  rules,          \* backend settings.brex_rules
  amberMax,       \* validation endpoint: most issues still reported amber
  brexRules,      \* BREXDesigner state `brexRules`: the rule set being edited
  savePc,         \* BREXDesigner: where Save & Validate is
  saveQ,          \* validateAllDataModules: modules of its loop still to do
  designerError,  \* BREXDesigner state `error` (set or empty)
  icns,           \* backend ICN store
  imgTasks,       \* per document: the image-linking tasks of its run
  nextIcn,        \* ICN store: number of the next icn_id
  dispatched,     \* documents whose run has dispatched its image tasks
  activeProviders,\* backend settings: the active text and vision provider
  aiProviders,    \* App state `aiProviders`
  ops,            \* provider operations, by call
  viewed,         \* DataModuleViewer prop `dataModule`: the module shown
  correctionSelections, \* DataModuleViewer state: (error index, method)
  viewerPc,       \* where the author operation in progress is
  fixQ,           \* applyCorrections: methods of its loop still to send
  publishConfig,  \* PublishModal state `publishConfig`
  publishing,     \* PublishModal state `publishing`
  publishResult,  \* PublishModal state `publishResult`
  publishRequests,\* requests the publish modal has sent to the backend
  yamlContent,    \* BREXDesigner state `yamlContent`
  isEditingYaml,  \* BREXDesigner state `isEditingYaml`
  lastSubmitMalformed,\* history: the configuration last submitted was malformed
  selectedProviders,\* AIProviderModal state: selectedTextProvider, selectedVisionProvider
  testsInFlight,  \* test requests in flight: key and the provider serving it
  testResults,    \* AIProviderModal state `testResults`, by key
  token,          \* localStorage item `aquila.jwt`
  sent,           \* requests sent: route and Authorization header
  globalLEDStatus,\* Toolbar local state `globalLEDStatus`
  locked,         \* App state `locked`
  deleting,       \* handleDelete: the module whose DELETE was sent, until the reload
  savedHotspots,  \* backend ICN records: the hotspots saved per ICN
  selectedICN,    \* IllustrationManager state `selectedICN`
  hotspots,       \* IllustrationManager state `hotspots`
  selectedHotspot,\* IllustrationManager state `selectedHotspot` (empty: null)
  hotspotHistory, \* IllustrationManager state `hotspotHistory`
  historyIndex,   \* IllustrationManager state `historyIndex`
  nextHotspotId,  \* value of Date.now() for the next hotspot id
  keyClosure,     \* state captured by the registered keydown handler
  editorContent,  \* RichTextEditor prop `content`: the XML content, a sequence of tokens
  htmlContent,    \* RichTextEditor state `htmlContent`
  editorOut,      \* the value last passed to onChange
  editorEmitted   \* whether onChange has been called

\* State of the application, the backend stores and the pipeline.
coreVars ==
  <<docList, docStatus, documents, uploading, store, dataModules, run,
    runsStarted, processing, startQ, toolbarBusy, rules, amberMax>>

\* State of the BREX designer.
designerVars == <<brexRules, savePc, saveQ, designerError>>

\* State outside the pipeline, the toolbar and the validation endpoint.
\* State of the illustration linker.
imageVars == <<icns, imgTasks, nextIcn, dispatched>>

\* State of the provider abstraction.
providerVars == <<activeProviders, aiProviders, ops>>

\* State of the data module viewer and the applicability matrix.
viewerVars == <<viewed, correctionSelections, viewerPc, fixQ>>

\* State of the publish modal.
publishVars == <<publishConfig, publishing, publishResult, publishRequests>>

\* State of the designer's YAML editor and import.
yamlVars == <<yamlContent, isEditingYaml, lastSubmitMalformed>>

\* State of the AI provider modal.
modalVars == <<selectedProviders, testsInFlight, testResults>>

\* The stored access token and the requests the front end has sent.
authVars == <<token, sent>>

\* State of the toolbar's LED indicator.
ledVars == <<globalLEDStatus>>

\* The workspace lock and the toolbar's delete in progress.
lockVars == <<locked, deleting>>

\* State of the illustration manager.
hotspotVars ==
  <<savedHotspots, selectedICN, hotspots,
    selectedHotspot, hotspotHistory, historyIndex,
    nextHotspotId, keyClosure>>

\* State of the rich text editor.
editorVars == <<editorContent, htmlContent, editorOut, editorEmitted>>

ext == <<designerVars, imageVars, providerVars, viewerVars, publishVars,
        yamlVars, modalVars, authVars, ledVars, lockVars,
        hotspotVars, editorVars>>

vars == <<docList, docStatus, documents, uploading, store, dataModules, run,
          runsStarted, processing, startQ, toolbarBusy, rules, amberMax, ext>>

\* --------------------------------------------------- identifier assignment
\* Variant: the simplified variant is also marked in the type segment.
assignMarked(defaults, dmType, variant) ==
  <<defaults, IF variant = "00" THEN dmType ELSE "ste", variant>>

\* assign(defaults, classification, variant): a pure function of its inputs;
\* the code is the sequence of its segments.
assign(defaults, dmType, variant) == <<defaults, dmType, variant>>

\* Position of the variant segment in a code.
VariantSegment == 3

\* IncompleteClassification: a required segment cannot be derived.
IncompleteClassification(dmType) == dmType = MissingType

\* The pipeline's code for a module: assign, or the generic/default code when
\* assign fails with IncompleteClassification.
CodeFor(defaults, dmType, variant) ==
  IF IncompleteClassification(dmType)
    THEN assign(defaults, GenericType, variant)
    ELSE assign(defaults, dmType, variant)

\* Codes a module's text can mention.
RefTargets == {assign("air", "procedural", Verbatim)}

\* -------------------------------------------------------- validation engine
\* The title pattern ^[A-Za-z0-9\s\-_]+$ on the titles of the model; ste_score
\* is kept in percent.
TitleMatchesPattern(t) == t \in {"Engine Start"}

\* The rule set of the BREX designer, flattened to the rules the engine reads.
getDefaultBREXRules ==
  [titleRequired |-> TRUE, contentMinLength |-> 10, validateDMRefs |-> TRUE,
   minScore |-> 85, warnBelowScore |-> 90]

\* Rule sets that can be saved through /api/settings.
RuleSets ==
  { getDefaultBREXRules,
    [getDefaultBREXRules EXCEPT !.titleRequired = FALSE,
                                !.validateDMRefs = FALSE,
                                !.minScore = 80, !.warnBelowScore = 95] }

NoRules == [titleRequired |-> FALSE, contentMinLength |-> 0,
            validateDMRefs |-> FALSE, minScore |-> 0, warnBelowScore |-> 0]

\* A parsed YAML document that is not a mapping of rule names to parameters
\* (a scalar or a list).
NotAMapping == [scalar |-> "rules"]

IsMapping(v) == v \in RuleSets

\* YAML text: the document that stringifies a value, or text that does not
\* parse.
YAMLstringify(v) == <<"doc", v>>
BrokenYaml == <<"broken">>
YamlTexts == {YAMLstringify(v) : v \in RuleSets \cup {NotAMapping}}
               \cup {BrokenYaml}

\* YAML.parse: throws on text that does not parse, else the value.
YAMLparses(t) == t # BrokenYaml
YAMLparse(t) == t[2]

Dmcs(S) == {m.dmc : m \in S}

\* One entry per rule, in the engine's fixed order: whether the rule reports,
\* the severity of its finding and the error string.
RuleChecks(m, r, S) ==
  << [fires |-> r.titleRequired /\ m.title = "",
      sev |-> "hard", msg |-> "Title is required"],
     [fires |-> m.title # "" /\ ~TitleMatchesPattern(m.title),
      sev |-> "hard", msg |-> "Title does not match pattern"],
     [fires |-> m.contentLen < r.contentMinLength,
      sev |-> "hard", msg |-> "Content is too short"],
     [fires |-> r.validateDMRefs /\ m.ref # NoRef /\ m.ref \notin Dmcs(S),
      sev |-> "hard", msg |-> "Broken content reference"],
     [fires |-> m.info_variant = Simplified /\ m.ste_score < r.minScore,
      sev |-> "hard", msg |-> "STE score below minimum"],
     [fires |-> m.info_variant = Simplified /\ m.ste_score >= r.minScore
                  /\ m.ste_score < r.warnBelowScore,
      sev |-> "warning", msg |-> "STE score below warning threshold"] >>

Fired(f) == f.fires

\* Every rule is run (no short-circuit); the findings keep the rule order.
Findings(m, r, S) == SelectSeq(RuleChecks(m, r, S), Fired)

ErrorList(fs) == [i \in 1..Len(fs) |-> fs[i].msg]

\* The validation endpoint stores green, amber or red "based on the number of
\* issues found" (README); the count up to which a module is still amber is
\* not documented and is drawn when the system starts.
StatusOf(fs) ==
  IF Len(fs) = 0 THEN "green"
  ELSE IF Len(fs) <= amberMax THEN "amber"
  ELSE "red"

\* Variant: the status counts the findings of the previous run as well.
ValidatedCounting(m, r, S) ==
  [m EXCEPT !.validation_status =
              StatusOf(m.validation_errors \o ErrorList(Findings(m, r, S))),
            !.validation_errors = ErrorList(Findings(m, r, S)),
            !.validated = TRUE,
            !.revalidated = (m.validated /\ m.validatedWith = r),
            !.validatedWith = r,
            !.validatedRef = (m.ref \in Dmcs(S))]

\* A module after the validation engine ran on it.
Validated(m, r, S) ==
  [m EXCEPT !.validation_status = StatusOf(Findings(m, r, S)),
            !.validation_errors = ErrorList(Findings(m, r, S)),
            !.validated = TRUE,
            !.revalidated = (m.validated /\ m.validatedWith = r),
            !.validatedWith = r,
            !.validatedRef = (m.ref \in Dmcs(S))]

\* Validation state a module is saved with by the pipeline (README: "saved to
\* the database with an initial red validation state").
InitialValidationStatus == "red"

NewModule(code, d, variant, title, len, ref, score) ==
  [dmc |-> code, source_document_id |-> d, info_variant |-> variant,
   title |-> title, contentLen |-> len, ref |-> ref, ste_score |-> score,
   validation_status |-> InitialValidationStatus,
   validation_errors |-> <<>>,
   applicability |-> "none",
   \* history: has the engine run on it, under which rules, did the code its
   \* text mentions exist then, and was its last run a repeat under the rules
   \* of the run before
   validated |-> FALSE, validatedWith |-> NoRules, validatedRef |-> FALSE,
   revalidated |-> FALSE]

\* ----------------------------------------------------------- initial state
\* A document's pipeline run: where it is, who requested it ("api": a direct
\* POST /api/documents/{id}/process, "ui": the toolbar's Start), the inputs
\* captured so far, the codes it persisted and how its steps ended.
IdleRun ==
  [pc |-> "idle", origin |-> "api", defaults |-> "air", title |-> "",
   dmType |-> MissingType, contentLen |-> 0, ref |-> NoRef, score |-> NoScore,
   created |-> {}, extFailed |-> FALSE, clsFailed |-> FALSE,
   rwFailed |-> FALSE, dup |-> FALSE]

\* The application after start, the rich text editor apart.
InitApp ==
  /\ docList = <<>>
  /\ docStatus = [d \in Docs |-> "none"]
  /\ documents = <<>>
  /\ uploading = {}
  /\ store = {}
  /\ dataModules = {}
  /\ run = [d \in Docs |-> IdleRun]
  /\ runsStarted = 0
  /\ processing = FALSE
  /\ startQ = <<>>
  /\ toolbarBusy = FALSE
  /\ rules = getDefaultBREXRules
  /\ amberMax \in {1, 2}
  /\ brexRules = getDefaultBREXRules
  /\ savePc = "idle"
  /\ saveQ = {}
  /\ designerError = FALSE
  /\ icns = {}
  /\ imgTasks = [d \in Docs |-> <<>>]
  /\ nextIcn = 1
  /\ dispatched = {}
  /\ activeProviders = [text |-> "openai", vision |-> "openai"]
  /\ aiProviders = [text |-> "openai", vision |-> "openai"]
  /\ ops = [o \in OpIds |-> IdleOp]
  /\ viewed = NoRef
  /\ correctionSelections = {}
  /\ viewerPc = "idle"
  /\ fixQ = {}
  /\ publishConfig = [variants |-> {"verbatim", "ste"},
                     formats |-> {"xml", "html", "pdf", "docx"},
                     scope |-> "all-green"]
  /\ publishing = FALSE
  /\ publishResult = NoResult
  /\ publishRequests = 0
  /\ yamlContent = YAMLstringify(getDefaultBREXRules)
  /\ isEditingYaml = FALSE
  /\ lastSubmitMalformed = FALSE
  /\ selectedProviders = [text |-> "openai", vision |-> "openai"]
  /\ testsInFlight = {}
  /\ testResults = {}
  /\ token = NoToken
  /\ sent = {}
  /\ globalLEDStatus = "green"
  /\ locked = FALSE
  /\ deleting = NoRef
  /\ savedHotspots = [i \in ManagerIcns |-> {}]
  /\ selectedICN = NoSelection
  /\ hotspots = {}
  /\ selectedHotspot = {}
  /\ hotspotHistory = <<>>
  /\ historyIndex = -1
  /\ nextHotspotId = 1
  /\ keyClosure = [hotspots |-> {}, hotspotHistory |-> <<>>, historyIndex |-> -1,
                  selectedHotspot |-> {}]

\* No content is open in the editor.
Init ==
  /\ InitApp
  /\ editorContent = <<>>
  /\ htmlContent = <<>>
  /\ editorOut = <<>>
  /\ editorEmitted = FALSE

\* ------------------------------------------------------------------ upload
\* uploadDocument, up to the POST: the backend stores the document, pending.
uploadDocument(d) ==
  /\ docStatus[d] = "none"
  /\ d \notin uploading
  /\ processing' = TRUE
  /\ uploading' = uploading \cup {d}
  /\ docList' = Append(docList, d)
  /\ docStatus' = [docStatus EXCEPT ![d] = "pending"]
  /\ UNCHANGED <<documents, store, dataModules, run, runsStarted, startQ,
                 toolbarBusy, rules, amberMax, ext>>

\* uploadDocument after the POST resolved: loadDocuments, then the finally
\* block clears the processing flag.
uploadDocumentDone(d) ==
  /\ d \in uploading
  /\ uploading' = uploading \ {d}
  /\ documents' = docList
  /\ processing' = FALSE
  /\ UNCHANGED <<docList, docStatus, store, dataModules, run, runsStarted,
                 startQ, toolbarBusy, rules, amberMax, ext>>

\* Variant: the list keeps only the simplified modules of the response.
loadSimplifiedModules ==
  /\ dataModules # {m \in store : m.info_variant = Simplified}
  /\ dataModules' = {m \in store : m.info_variant = Simplified}
  /\ UNCHANGED <<docList, docStatus, documents, uploading, store, run,
                 runsStarted, processing, startQ, toolbarBusy, rules, amberMax, ext>>

\* loadDataModules: GET /api/data-modules replaces the loaded list.
loadDataModules ==
  /\ dataModules # store
  /\ dataModules' = store
  /\ UNCHANGED <<docList, docStatus, documents, uploading, store, run,
                 runsStarted, processing, startQ, toolbarBusy, rules, amberMax, ext>>

\* ---------------------------------------------------------------- pipeline
\* A process request is accepted for any stored document, whatever its
\* status; the run marks the document processing.  The model runs one
\* pipeline at a time per document.
StartRun(d, origin, defaults) ==
  /\ docStatus[d] # "none"
  /\ run[d].pc = "idle"
  /\ runsStarted < MaxRuns
  /\ runsStarted' = runsStarted + 1
  /\ docStatus' = [docStatus EXCEPT ![d] = "processing"]
  /\ run' = [run EXCEPT ![d] = [IdleRun EXCEPT !.pc = "extract",
                                               !.origin = origin,
                                               !.defaults = defaults]]

\* How a run ends: a run requested by the toolbar still owes its response;
\* the run's working data is dropped, what it persisted and how its steps
\* ended is kept for inspection.
EndRun(r) ==
  [IdleRun EXCEPT !.pc = IF r.origin = "ui" THEN "respond" ELSE "idle",
                  !.origin = r.origin, !.created = r.created,
                  !.extFailed = r.extFailed, !.clsFailed = r.clsFailed,
                  !.rwFailed = r.rwFailed, !.dup = r.dup]

\* Step 1, extraction succeeded: the text (its length, the code it mentions).
ExtractOk(d, len, ref) ==
  /\ run[d].pc = "extract"
  /\ run' = [run EXCEPT ![d].pc = "classify", ![d].contentLen = len,
                        ![d].ref = ref]
  /\ UNCHANGED <<docList, docStatus, documents, uploading, store, dataModules,
                 runsStarted, processing, startQ, toolbarBusy, rules, amberMax, ext>>

\* Variant: a failed extraction puts the document back to pending.
ExtractFailRequeue(d) ==
  /\ run[d].pc = "extract"
  /\ run' = [run EXCEPT ![d] = EndRun([run[d] EXCEPT !.extFailed = TRUE])]
  /\ docStatus' = [docStatus EXCEPT ![d] = "pending"]
  /\ UNCHANGED <<docList, documents, uploading, store, dataModules,
                 runsStarted, processing, startQ, toolbarBusy, rules, amberMax, ext>>

\* Step 1, ExtractionFailed: mark the document failed and stop.
ExtractFail(d) ==
  /\ run[d].pc = "extract"
  /\ run' = [run EXCEPT ![d] = EndRun([run[d] EXCEPT !.extFailed = TRUE])]
  /\ docStatus' = [docStatus EXCEPT ![d] = "failed"]
  /\ UNCHANGED <<docList, documents, uploading, store, dataModules,
                 runsStarted, processing, startQ, toolbarBusy, rules, amberMax, ext>>

\* Step 2, classify succeeded (dm_type may still be missing).
ClassifyOk(d, dmType, title) ==
  /\ run[d].pc = "classify"
  /\ run' = [run EXCEPT ![d].pc = "persist00", ![d].dmType = dmType,
                        ![d].title = title]
  /\ UNCHANGED <<docList, docStatus, documents, uploading, store, dataModules,
                 runsStarted, processing, startQ, toolbarBusy, rules, amberMax, ext>>

\* Variant: a failed classification is treated like an incomplete one and the
\* run goes on with the generic type.
ClassifyFailContinue(d) ==
  /\ run[d].pc = "classify"
  /\ run' = [run EXCEPT ![d].pc = "persist00", ![d].dmType = MissingType,
                        ![d].clsFailed = TRUE]
  /\ UNCHANGED <<docList, docStatus, documents, uploading, store, dataModules,
                 runsStarted, processing, startQ, toolbarBusy, rules, amberMax, ext>>

\* Step 2, classify failed: mark failed, stop, no module created.
ClassifyFail(d) ==
  /\ run[d].pc = "classify"
  /\ run' = [run EXCEPT ![d] = EndRun([run[d] EXCEPT !.clsFailed = TRUE])]
  /\ docStatus' = [docStatus EXCEPT ![d] = "failed"]
  /\ UNCHANGED <<docList, documents, uploading, store, dataModules,
                 runsStarted, processing, startQ, toolbarBusy, rules, amberMax, ext>>

\* Step 3: build the verbatim code and persist DataModule #1.  The store is
\* keyed by dmc and rejects a duplicate (DuplicateIdentifier); the rejection
\* is not one of the recoverable steps, so it ends the run as failed.
PersistVerbatim(d) ==
  LET r == run[d]
      code == CodeFor(r.defaults, r.dmType, Verbatim)
  IN /\ r.pc = "persist00"
     /\ IF code \in Dmcs(store)
          THEN /\ run' = [run EXCEPT ![d] = EndRun([r EXCEPT !.dup = TRUE])]
               /\ docStatus' = [docStatus EXCEPT ![d] = "failed"]
               /\ store' = store
          ELSE /\ store' = store \cup
                     {NewModule(code, d, Verbatim, r.title, r.contentLen,
                                r.ref, NoScore)}
               /\ run' = [run EXCEPT ![d].pc = "rewrite",
                                     ![d].created = r.created \cup {code}]
               /\ docStatus' = docStatus
     /\ UNCHANGED <<docList, documents, uploading, dataModules, runsStarted,
                    processing, startQ, toolbarBusy, rules, amberMax, ext>>

\* Step 4, rewrite_ste succeeded with a score.
RewriteOk(d, score) ==
  /\ run[d].pc = "rewrite"
  /\ run' = [run EXCEPT ![d].pc = "persist01", ![d].score = score]
  /\ UNCHANGED <<docList, docStatus, documents, uploading, store, dataModules,
                 runsStarted, processing, startQ, toolbarBusy, rules, amberMax, ext>>

\* Variant: a failed rewrite is fatal like a failed classification.
RewriteFailFatal(d) ==
  /\ run[d].pc = "rewrite"
  /\ run' = [run EXCEPT ![d] = EndRun([run[d] EXCEPT !.rwFailed = TRUE])]
  /\ docStatus' = [docStatus EXCEPT ![d] = "failed"]
  /\ UNCHANGED <<docList, documents, uploading, store, dataModules,
                 runsStarted, processing, startQ, toolbarBusy, rules, amberMax, ext>>

\* Step 4, rewrite_ste failed: the verbatim module stays, no simplified
\* variant is created, the run goes on.
RewriteFail(d) ==
  /\ run[d].pc = "rewrite"
  /\ run' = [run EXCEPT ![d].pc = "validate", ![d].rwFailed = TRUE]
  /\ UNCHANGED <<docList, docStatus, documents, uploading, store, dataModules,
                 runsStarted, processing, startQ, toolbarBusy, rules, amberMax, ext>>

\* Step 5: build the simplified code (same inputs, variant "01") and persist
\* DataModule #2 with the returned ste_score.  Steps 4-6 are recoverable: a
\* rejected duplicate skips the artifact and the run goes on.
PersistSimplified(d) ==
  LET r == run[d]
      code == CodeFor(r.defaults, r.dmType, Simplified)
  IN /\ r.pc = "persist01"
     /\ IF code \in Dmcs(store)
          THEN /\ run' = [run EXCEPT ![d].pc = "validate", ![d].dup = TRUE]
               /\ store' = store
          ELSE /\ store' = store \cup
                     {NewModule(code, d, Simplified, r.title, r.contentLen,
                                r.ref, r.score)}
               /\ run' = [run EXCEPT ![d].pc = "validate",
                                     ![d].created = r.created \cup {code}]
     /\ UNCHANGED <<docList, docStatus, documents, uploading, dataModules,
                    runsStarted, processing, startQ, toolbarBusy, rules,
                    amberMax, ext>>

\* The store after the validation engine ran on the modules with codes in C.
ValidateAll(S, C, r) ==
  {IF m.dmc \in C THEN Validated(m, r, S) ELSE m : m \in S}

\* Step 7: trigger the validation engine for every newly created module.
ValidateNew(d) ==
  /\ run[d].pc = "validate"
  /\ store' = ValidateAll(store, run[d].created, rules)
  /\ run' = [run EXCEPT ![d].pc = "complete"]
  /\ UNCHANGED <<docList, docStatus, documents, uploading, dataModules,
                 runsStarted, processing, startQ, toolbarBusy, rules, amberMax, ext>>

\* ------------------------------------------------------ illustration linker
\* Embedded images of a document, by checksum, in page order: one image on
\* two pages, or two images.
ImageLists == { <<"img001", "img001">>, <<"img001", "img002">> }

NoIcn == <<>>

\* icn_id: "ICN-" and a number.
IcnId(n) == <<"ICN", n>>

\* A link(image, owner) call, before its first step.
NewTask(img) == [img |-> img, pc |-> "lookup", caption |-> "", icn |-> NoIcn]

\* Every image task of the document's run has completed or been recorded as
\* failed.
TasksFinished(d) ==
  \A i \in 1..Len(imgTasks[d]) : imgTasks[d][i].pc \in {"done", "failed"}

\* Step 6: one link call per embedded image; the calls run concurrently.
DispatchImages(d, imgs) ==
  /\ run[d].pc = "validate"
  /\ d \notin dispatched
  /\ dispatched' = dispatched \cup {d}
  /\ imgTasks' = [imgTasks EXCEPT
                    ![d] = [i \in 1..Len(imgs) |-> NewTask(imgs[i])]]
  /\ UNCHANGED <<docList, docStatus, documents, uploading, store, dataModules,
                 run, runsStarted, processing, startQ, toolbarBusy, rules,
                 amberMax, designerVars, icns, nextIcn,
                 providerVars, viewerVars, publishVars, yamlVars, modalVars,
                 authVars, ledVars, lockVars, hotspotVars, editorVars>>

\* link: is the image known?  A record with the checksum is reused.
linkLookup(d, i) ==
  /\ i \in 1..Len(imgTasks[d])
  /\ imgTasks[d][i].pc = "lookup"
  /\ \/ /\ \A r \in icns : r.checksum # imgTasks[d][i].img
        /\ imgTasks' = [imgTasks EXCEPT ![d][i].pc = "vision"]
     \/ \E r \in icns :
          /\ r.checksum = imgTasks[d][i].img
          /\ imgTasks' = [imgTasks EXCEPT ![d][i].pc = "done",
                                          ![d][i].icn = r.icn_id]
  /\ UNCHANGED <<docList, docStatus, documents, uploading, store, dataModules,
                 run, runsStarted, processing, startQ, toolbarBusy, rules,
                 amberMax, designerVars, icns, nextIcn, dispatched,
                 providerVars, viewerVars, publishVars, yamlVars, modalVars,
                 authVars, ledVars, lockVars, hotspotVars, editorVars>>

\* link: the vision provider's calls; a failure yields an empty caption.
linkVision(d, i, ok) ==
  /\ i \in 1..Len(imgTasks[d])
  /\ imgTasks[d][i].pc = "vision"
  /\ imgTasks' = [imgTasks EXCEPT
                    ![d][i].pc = "persist",
                    ![d][i].caption = IF ok THEN "caption" ELSE ""]
  /\ UNCHANGED <<docList, docStatus, documents, uploading, store, dataModules,
                 run, runsStarted, processing, startQ, toolbarBusy, rules,
                 amberMax, designerVars, icns, nextIcn, dispatched,
                 providerVars, viewerVars, publishVars, yamlVars, modalVars,
                 authVars, ledVars, lockVars, hotspotVars, editorVars>>

\* link: create the ICN record under a fresh icn_id.
linkPersist(d, i) ==
  /\ i \in 1..Len(imgTasks[d])
  /\ imgTasks[d][i].pc = "persist"
  /\ icns' = icns \cup {[icn_id |-> IcnId(nextIcn),
                         checksum |-> imgTasks[d][i].img,
                         caption |-> imgTasks[d][i].caption]}
  /\ nextIcn' = nextIcn + 1
  /\ imgTasks' = [imgTasks EXCEPT ![d][i].pc = "done",
                                  ![d][i].icn = IcnId(nextIcn)]
  /\ UNCHANGED <<docList, docStatus, documents, uploading, store, dataModules,
                 run, runsStarted, processing, startQ, toolbarBusy, rules,
                 amberMax, designerVars, dispatched,
                 providerVars, viewerVars, publishVars, yamlVars, modalVars,
                 authVars, ledVars, lockVars, hotspotVars, editorVars>>

\* link: the task cannot store its record and is recorded as failed.
linkFailed(d, i) ==
  /\ i \in 1..Len(imgTasks[d])
  /\ imgTasks[d][i].pc = "persist"
  /\ imgTasks' = [imgTasks EXCEPT ![d][i].pc = "failed"]
  /\ UNCHANGED <<docList, docStatus, documents, uploading, store, dataModules,
                 run, runsStarted, processing, startQ, toolbarBusy, rules,
                 amberMax, designerVars, icns, nextIcn, dispatched,
                 providerVars, viewerVars, publishVars, yamlVars, modalVars,
                 authVars, ledVars, lockVars, hotspotVars, editorVars>>

\* Variant: a run in which a provider call failed ends failed.
CompleteUnlessProviderFailed(d) ==
  /\ run[d].pc = "complete"
  /\ TasksFinished(d)
  /\ dispatched' = dispatched \ {d}
  /\ docStatus' = [docStatus EXCEPT
                     ![d] = IF run[d].rwFailed THEN "failed" ELSE "completed"]
  /\ run' = [run EXCEPT ![d] = EndRun(run[d])]
  /\ UNCHANGED <<docList, documents, uploading, store, dataModules,
                 runsStarted, processing, startQ, toolbarBusy, rules, amberMax,
                 designerVars, icns, imgTasks, nextIcn,
                 providerVars, viewerVars, publishVars, yamlVars, modalVars,
                 authVars, ledVars, lockVars, hotspotVars, editorVars>>

\* Variant: the document is marked completed while image tasks still run.
CompleteEarly(d) ==
  /\ run[d].pc = "complete"
  /\ dispatched' = dispatched \ {d}
  /\ docStatus' = [docStatus EXCEPT ![d] = "completed"]
  /\ run' = [run EXCEPT ![d] = EndRun(run[d])]
  /\ UNCHANGED <<docList, documents, uploading, store, dataModules,
                 runsStarted, processing, startQ, toolbarBusy, rules, amberMax,
                 designerVars, icns, imgTasks, nextIcn,
                 providerVars, viewerVars, publishVars, yamlVars, modalVars,
                 authVars, ledVars, lockVars, hotspotVars, editorVars>>

\* Step 8: mark the document completed, once every image task of the run has
\* completed or been recorded as failed.
Complete(d) ==
  /\ run[d].pc = "complete"
  /\ TasksFinished(d)
  /\ dispatched' = dispatched \ {d}
  /\ docStatus' = [docStatus EXCEPT ![d] = "completed"]
  /\ run' = [run EXCEPT ![d] = EndRun(run[d])]
  /\ UNCHANGED <<docList, documents, uploading, store, dataModules,
                 runsStarted, processing, startQ, toolbarBusy, rules, amberMax,
                 designerVars, icns, imgTasks, nextIcn,
                 providerVars, viewerVars, publishVars, yamlVars, modalVars,
                 authVars, ledVars, lockVars, hotspotVars, editorVars>>

\* ------------------------------------------------------- process requests
\* A single process request sent straight to the endpoint.
apiProcess(d, defaults) ==
  /\ StartRun(d, "api", defaults)
  /\ UNCHANGED <<docList, documents, uploading, store, dataModules,
                 processing, startQ, toolbarBusy, rules, amberMax, ext>>

\* handleStartProcessing, entry: the Start button is enabled while the
\* toolbar is not busy and documents are listed; it queues every listed
\* document, whatever its status.
handleStartProcessing ==
  /\ ~toolbarBusy
  /\ Len(documents) > 0
  /\ toolbarBusy' = TRUE
  /\ startQ' = documents
  /\ UNCHANGED <<docList, docStatus, documents, uploading, store, dataModules,
                 run, runsStarted, processing, rules, amberMax, ext>>

\* processDocument, up to the POST, for the next document of the loop.
processDocument(d, defaults) ==
  /\ toolbarBusy
  /\ startQ # <<>>
  /\ d = Head(startQ)
  /\ StartRun(d, "ui", defaults)
  /\ processing' = TRUE
  /\ UNCHANGED <<docList, documents, uploading, store, dataModules, startQ,
                 toolbarBusy, rules, amberMax, ext>>

\* processDocument after the POST settled.  Resolved: reload the module list,
\* clear the flag, go on with the next document (the last one ends the loop
\* and the toolbar's finally block).  Rejected (the run failed): the error is
\* rethrown, the flag cleared, and the loop's catch ends the loop.
processDocumentDone(d) ==
  /\ run[d].pc = "respond"
  /\ run' = [run EXCEPT ![d].pc = "idle"]
  /\ processing' = FALSE
  /\ IF docStatus[d] = "failed"
       THEN /\ startQ' = <<>>
            /\ toolbarBusy' = FALSE
            /\ dataModules' = dataModules
       ELSE /\ startQ' = Tail(startQ)
            /\ toolbarBusy' = (Tail(startQ) # <<>>)
            /\ dataModules' = store
  /\ UNCHANGED <<docList, docStatus, documents, uploading, store, runsStarted,
                 rules, amberMax, ext>>

\* -------------------------------------------------- validation and settings
\* POST /api/validate/{dmc}: run the engine on one stored module under the
\* current rule set and store the result.
validate(dmc) ==
  /\ dmc \in Dmcs(store)
  /\ store' = ValidateAll(store, {dmc}, rules)
  /\ UNCHANGED <<docList, docStatus, documents, uploading, dataModules, run,
                 runsStarted, processing, startQ, toolbarBusy, rules, amberMax, ext>>

\* POST /api/settings: replace the rule set.
updateSettings(r) ==
  /\ r # rules
  /\ rules' = r
  /\ UNCHANGED <<docList, docStatus, documents, uploading, store, dataModules,
                 run, runsStarted, processing, startQ, toolbarBusy, amberMax, ext>>

\* ------------------------------------------------------------ specification
\* The steps of the pipeline runs, for the given results of extraction
\* (content lengths, mentioned codes), classification (dm_types, titles) and
\* rewriting (scores).
Pipeline(lens, refs, types, titles, scores) ==
  \E d \in Docs :
    \/ \E len \in lens, ref \in refs : ExtractOk(d, len, ref)
    \/ ExtractFail(d)
    \/ \E t \in types, ti \in titles : ClassifyOk(d, t, ti)
    \/ ClassifyFail(d)
    \/ PersistVerbatim(d)
    \/ \E sc \in scores : RewriteOk(d, sc)
    \/ RewriteFail(d)
    \/ PersistSimplified(d)
    \/ ValidateNew(d)
    \/ Complete(d)

\* The application: uploads, the toolbar's Start, single process requests,
\* the pipeline runs they start, and reloads of the module list.
Next ==
  \/ \E d \in Docs : uploadDocument(d)
  \/ \E d \in Docs : uploadDocumentDone(d)
  \/ loadDataModules
  \/ \E d \in Docs : apiProcess(d, "air")
  \/ handleStartProcessing
  \/ \E d \in Docs : processDocument(d, "air")
  \/ \E d \in Docs : processDocumentDone(d)
  \/ Pipeline({50}, {NoRef}, {"procedural", MissingType}, {"Engine Start"},
              {92})

Spec == Init /\ [][Next]_vars

\* The validation engine at work: one document is uploaded and processed
\* (and processed again) with texts that mention another module's code and
\* with low scores; modules are validated on request and the
\* rule set is replaced.
NextValidate ==
  \/ uploadDocument("d1")
  \/ uploadDocumentDone("d1")
  \/ apiProcess("d1", "air")
  \/ Pipeline({50}, {NoRef} \cup RefTargets, {"procedural", "descriptive"},
              {"Engine Start"}, {80})
  \/ \E m \in store : validate(m.dmc)
  \/ \E r \in RuleSets : updateSettings(r)

SpecValidate == Init /\ [][NextValidate]_vars

\* ------------------------------------------------------------ BREX designer
\* updateRule: edit the rule set held by the designer (through the form,
\* which shows the rules of a mapping).
updateRule(r) ==
  /\ savePc = "idle"
  /\ IsMapping(brexRules)
  /\ r # brexRules
  /\ brexRules' = r
  /\ yamlContent' = YAMLstringify(r)
  /\ UNCHANGED <<coreVars, savePc, saveQ, designerError, imageVars,
                 providerVars, viewerVars, publishVars, isEditingYaml,
                 lastSubmitMalformed, modalVars, authVars, ledVars, lockVars,
                 hotspotVars, editorVars>>

\* saveBREXRules: what the handler sends - the parsed YAML text while the
\* YAML editor is open, else the rule set of the form.
rulesToSave == IF isEditingYaml THEN YAMLparse(yamlContent) ELSE brexRules

\* saveBREXRules, the POST /api/settings answered ok: the backend holds the
\* designer's rule set, and validateAllDataModules starts its loop over the
\* module list the front end has loaded.
saveBREXRules ==
  /\ savePc = "idle"
  /\ isEditingYaml => YAMLparses(yamlContent)
  /\ IsMapping(rulesToSave)
  /\ brexRules' = rulesToSave
  /\ rules' = rulesToSave
  /\ designerError' = FALSE
  /\ lastSubmitMalformed' = FALSE
  /\ savePc' = "validating"
  /\ saveQ' = Dmcs(dataModules)
  /\ UNCHANGED <<docList, docStatus, documents, uploading, store, dataModules,
                 run, runsStarted, processing, startQ, toolbarBusy, amberMax,
                 imageVars, providerVars, viewerVars, publishVars,
                 yamlContent, isEditingYaml, modalVars, authVars, ledVars,
                 lockVars, hotspotVars, editorVars>>

\* saveBREXRules, the POST answered not ok - the backend rejects a
\* configuration that is not a mapping, and any request can fail: the error
\* is shown, the designer keeps what it parsed.
saveBREXRulesFailed ==
  /\ savePc = "idle"
  /\ isEditingYaml => YAMLparses(yamlContent)
  /\ brexRules' = rulesToSave
  /\ designerError' = TRUE
  /\ lastSubmitMalformed' = ~IsMapping(rulesToSave)
  /\ UNCHANGED <<coreVars, savePc, saveQ, imageVars, providerVars,
                 viewerVars, publishVars, yamlContent, isEditingYaml,
                 modalVars, authVars, ledVars, lockVars, hotspotVars,
                 editorVars>>

\* saveBREXRules, YAML.parse throws: the error is shown, nothing is sent.
saveBREXRulesParseError ==
  /\ savePc = "idle"
  /\ isEditingYaml /\ ~YAMLparses(yamlContent)
  /\ designerError' = TRUE
  /\ lastSubmitMalformed' = TRUE
  /\ UNCHANGED <<coreVars, brexRules, savePc, saveQ, imageVars, providerVars,
                 viewerVars, publishVars, yamlContent, isEditingYaml,
                 modalVars, authVars, ledVars, lockVars, hotspotVars,
                 editorVars>>

\* validateAllDataModules, one round of the loop: POST /api/validate/{dmc}.
validateAllDataModules(dmc) ==
  /\ savePc = "validating"
  /\ dmc \in saveQ
  /\ saveQ' = saveQ \ {dmc}
  /\ store' = ValidateAll(store, {dmc}, rules)
  /\ UNCHANGED <<docList, docStatus, documents, uploading, dataModules, run,
                 runsStarted, processing, startQ, toolbarBusy, rules, amberMax,
                 brexRules, savePc, designerError,
                 imageVars, providerVars, viewerVars, publishVars, yamlVars,
                 modalVars, authVars, ledVars, lockVars, hotspotVars,
                 editorVars>>

\* validateAllDataModules after the loop: reload the module list; Save &
\* Validate is over and the YAML editor is closed.
validateAllDataModulesDone ==
  /\ savePc = "validating"
  /\ saveQ = {}
  /\ savePc' = "idle"
  /\ dataModules' = store
  /\ isEditingYaml' = FALSE
  /\ UNCHANGED <<docList, docStatus, documents, uploading, store, run,
                 runsStarted, processing, startQ, toolbarBusy, rules, amberMax,
                 brexRules, saveQ, designerError,
                 imageVars, providerVars, viewerVars, publishVars,
                 yamlContent, lastSubmitMalformed, modalVars, authVars,
                 ledVars, lockVars, hotspotVars, editorVars>>

\* importRules: the file read is parsed; what it holds becomes the designer's
\* rule set, a parse error is shown.
importRules(t) ==
  /\ IF YAMLparses(t)
       THEN /\ brexRules' = YAMLparse(t)
            /\ yamlContent' = YAMLstringify(YAMLparse(t))
            /\ lastSubmitMalformed' = ~IsMapping(YAMLparse(t))
            /\ UNCHANGED designerError
       ELSE /\ designerError' = TRUE
            /\ lastSubmitMalformed' = TRUE
            /\ UNCHANGED <<brexRules, yamlContent, modalVars, authVars, ledVars, lockVars,
                 hotspotVars, editorVars>>
  /\ UNCHANGED <<coreVars, savePc, saveQ, imageVars, providerVars,
                 viewerVars, publishVars, isEditingYaml, modalVars, authVars,
                 ledVars, lockVars, hotspotVars, editorVars>>

\* The YAML editor is opened or closed.
toggleYamlEditing ==
  /\ isEditingYaml' = ~isEditingYaml
  /\ UNCHANGED <<coreVars, designerVars, imageVars, providerVars, viewerVars,
                 publishVars, yamlContent, lastSubmitMalformed, modalVars,
                 authVars, ledVars, lockVars, hotspotVars, editorVars>>

\* The text of the YAML editor is changed.
setYamlContent(t) ==
  /\ isEditingYaml
  /\ t # yamlContent
  /\ yamlContent' = t
  /\ UNCHANGED <<coreVars, designerVars, imageVars, providerVars, viewerVars,
                 publishVars, isEditingYaml, lastSubmitMalformed, modalVars,
                 authVars, ledVars, lockVars, hotspotVars, editorVars>>

NextDesigner ==
  \/ uploadDocument("d1")
  \/ uploadDocumentDone("d1")
  \/ apiProcess("d1", "air")
  \/ Pipeline({50}, {NoRef}, {"procedural", "descriptive"},
              {"Engine Start"}, {80})
  \/ loadDataModules
  \/ \E r \in RuleSets : updateRule(r)
  \/ saveBREXRules
  \/ saveBREXRulesFailed
  \/ \E dmc \in saveQ : validateAllDataModules(dmc)
  \/ validateAllDataModulesDone

SpecDesigner == Init /\ [][NextDesigner]_vars

\* ------------------------------------------------------ provider operations
\* A provider operation starts: it captures the provider active for its side.
opStart(o, kind) ==
  /\ ops[o].pc \in {"idle", "done"}
  /\ ops' = [ops EXCEPT ![o] = [pc |-> "inflight", kind |-> kind,
                                provider |-> activeProviders[Side(kind)],
                                activeAtStart |-> activeProviders[Side(kind)],
                                swapped |-> FALSE,
                                servedBy |-> activeProviders[Side(kind)]]]
  /\ UNCHANGED <<docList, docStatus, documents, uploading, store, dataModules,
                 run, runsStarted, processing, startQ, toolbarBusy, rules,
                 amberMax, designerVars, imageVars, activeProviders,
                 aiProviders,
                 viewerVars, publishVars, yamlVars, modalVars, authVars,
                 ledVars, lockVars, hotspotVars, editorVars>>

\* Variant: the operation is served by the provider active when it completes.
opEndActive(o) ==
  /\ ops[o].pc = "inflight"
  /\ ops' = [ops EXCEPT ![o].pc = "done",
                        ![o].servedBy = activeProviders[Side(ops[o].kind)]]
  /\ UNCHANGED <<docList, docStatus, documents, uploading, store, dataModules,
                 run, runsStarted, processing, startQ, toolbarBusy, rules,
                 amberMax, designerVars, imageVars, activeProviders,
                 aiProviders,
                 viewerVars, publishVars, yamlVars, modalVars, authVars,
                 ledVars, lockVars, hotspotVars, editorVars>>

\* The operation completes, served by the provider reference it captured.
opEnd(o) ==
  /\ ops[o].pc = "inflight"
  /\ ops' = [ops EXCEPT ![o].pc = "done", ![o].servedBy = ops[o].provider]
  /\ UNCHANGED <<docList, docStatus, documents, uploading, store, dataModules,
                 run, runsStarted, processing, startQ, toolbarBusy, rules,
                 amberMax, designerVars, imageVars, activeProviders,
                 aiProviders,
                 viewerVars, publishVars, yamlVars, modalVars, authVars,
                 ledVars, lockVars, hotspotVars, editorVars>>

\* updateAIProviders: POST /api/providers/set swaps the active pair, then the
\* front end's copy is set.
updateAIProviders(textProvider, visionProvider) ==
  /\ activeProviders # [text |-> textProvider, vision |-> visionProvider]
  /\ activeProviders' = [text |-> textProvider, vision |-> visionProvider]
  /\ aiProviders' = [text |-> textProvider, vision |-> visionProvider]
  /\ ops' = [o \in OpIds |->
               IF ops[o].pc = "inflight"
                    /\ activeProviders'[Side(ops[o].kind)]
                         # activeProviders[Side(ops[o].kind)]
                 THEN [ops[o] EXCEPT !.swapped = TRUE]
                 ELSE ops[o]]
  /\ UNCHANGED <<docList, docStatus, documents, uploading, store, dataModules,
                 run, runsStarted, processing, startQ, toolbarBusy, rules,
                 amberMax, designerVars, imageVars, viewerVars, publishVars,
                 yamlVars, modalVars, authVars, ledVars, lockVars,
                 hotspotVars, editorVars>>

NextProviders ==
  \/ \E o \in OpIds, kind \in OpKinds : opStart(o, kind)
  \/ \E o \in OpIds : opEnd(o)
  \/ \E t \in Providers, v \in Providers : updateAIProviders(t, v)

SpecProviders == Init /\ [][NextProviders]_vars

\* -------------------------------------------------------- data module viewer
\* The copy of the module with code dmc in the set S of module records.
ModuleIn(S, dmc) == CHOOSE m \in S : m.dmc = dmc

\* Errors the viewer lists for the module shown (from the loaded list).
ShownErrors ==
  IF viewed \in Dmcs(dataModules)
    THEN ModuleIn(dataModules, viewed).validation_errors
    ELSE <<>>

\* The AI radio is offered for errors whose text mentions the content.
OffersAI(error) ==
  error \in {"Content is too short", "Broken content reference"}

\* A module of the loaded list is shown in the viewer.
selectDataModule(dmc) ==
  /\ viewerPc = "idle"
  /\ dmc \in Dmcs(dataModules)
  /\ dmc # viewed
  /\ viewed' = dmc
  /\ UNCHANGED <<docList, docStatus, documents, uploading, store, dataModules,
                 run, runsStarted, processing, startQ, toolbarBusy, rules,
                 amberMax, designerVars, imageVars, providerVars,
                 correctionSelections, viewerPc, fixQ, publishVars, yamlVars,
                 modalVars, authVars, ledVars, lockVars, hotspotVars,
                 editorVars>>

\* Variant: the radios of an error behave like check boxes.
handleSelectionAdd(index, method) ==
  /\ viewerPc = "idle"
  /\ index \in 1..Len(ShownErrors)
  /\ method = "ai" => OffersAI(ShownErrors[index])
  /\ correctionSelections' = correctionSelections \cup {<<index, method>>}
  /\ UNCHANGED <<docList, docStatus, documents, uploading, store, dataModules,
                 run, runsStarted, processing, startQ, toolbarBusy, rules,
                 amberMax, designerVars, imageVars, providerVars, viewed,
                 viewerPc, fixQ, publishVars, yamlVars, modalVars, authVars,
                 ledVars, lockVars, hotspotVars, editorVars>>

\* handleSelectionChange: the entry of the error's index is set to the method.
handleSelectionChange(index, method) ==
  /\ viewerPc = "idle"
  /\ index \in 1..Len(ShownErrors)
  /\ method = "ai" => OffersAI(ShownErrors[index])
  /\ correctionSelections' =
       {p \in correctionSelections : p[1] # index} \cup {<<index, method>>}
  /\ UNCHANGED <<docList, docStatus, documents, uploading, store, dataModules,
                 run, runsStarted, processing, startQ, toolbarBusy, rules,
                 amberMax, designerVars, imageVars, providerVars, viewed,
                 viewerPc, fixQ, publishVars, yamlVars, modalVars, authVars,
                 ledVars, lockVars, hotspotVars, editorVars>>

\* PUT /api/data-modules/{dmc}: the stored module takes the fields sent.
PutContent(S, dmc, len) ==
  {IF m.dmc = dmc THEN [m EXCEPT !.contentLen = len] ELSE m : m \in S}

PutApplicability(S, dmc, a) ==
  {IF m.dmc = dmc THEN [m EXCEPT !.applicability = a] ELSE m : m \in S}

\* Variant: the viewer sends its whole copy of the module with the new content.
handleSaveWholeModule(len) ==
  /\ viewerPc = "idle"
  /\ ~locked
  /\ viewed \in Dmcs(dataModules) /\ viewed \in Dmcs(store)
  /\ store' = {IF m.dmc = viewed
                 THEN [ModuleIn(dataModules, viewed) EXCEPT !.contentLen = len]
                 ELSE m : m \in store}
  /\ viewerPc' = "reload"
  /\ UNCHANGED <<docList, docStatus, documents, uploading, dataModules,
                 run, runsStarted, processing, startQ, toolbarBusy, rules,
                 amberMax, designerVars, imageVars, providerVars, viewed,
                 correctionSelections, fixQ, publishVars, yamlVars,
                 modalVars, authVars, ledVars, lockVars, hotspotVars,
                 editorVars>>

\* handleSave, up to the PUT: content and html_content of the module shown.
handleSave(len) ==
  /\ viewerPc = "idle"
  /\ ~locked
  /\ viewed \in Dmcs(dataModules) /\ viewed \in Dmcs(store)
  /\ store' = PutContent(store, viewed, len)
  /\ viewerPc' = "reload"
  /\ UNCHANGED <<docList, docStatus, documents, uploading, dataModules,
                 run, runsStarted, processing, startQ, toolbarBusy, rules,
                 amberMax, designerVars, imageVars, providerVars, viewed,
                 correctionSelections, fixQ, publishVars, yamlVars,
                 modalVars, authVars, ledVars, lockVars, hotspotVars,
                 editorVars>>

\* saveApplicability, up to the PUT: the applicability of the module
\* selected in the matrix.
saveApplicability(dmc, a) ==
  /\ viewerPc = "idle"
  /\ dmc \in Dmcs(dataModules) /\ dmc \in Dmcs(store)
  /\ store' = PutApplicability(store, dmc, a)
  /\ viewerPc' = "reload"
  /\ UNCHANGED <<docList, docStatus, documents, uploading, dataModules,
                 run, runsStarted, processing, startQ, toolbarBusy, rules,
                 amberMax, designerVars, imageVars, providerVars, viewed,
                 correctionSelections, fixQ, publishVars, yamlVars,
                 modalVars, authVars, ledVars, lockVars, hotspotVars,
                 editorVars>>

\* updateDataModule after the PUT: reload the module list.
updateDataModuleDone ==
  /\ viewerPc = "reload"
  /\ viewerPc' = "idle"
  /\ dataModules' = store
  /\ UNCHANGED <<docList, docStatus, documents, uploading, store, run,
                 runsStarted, processing, startQ, toolbarBusy, rules, amberMax,
                 designerVars, imageVars, providerVars, viewed,
                 correctionSelections, fixQ, publishVars, yamlVars,
                 modalVars, authVars, ledVars, lockVars, hotspotVars,
                 editorVars>>

\* POST /api/fix-module/{dmc}?method=...: the action goes to the audit log;
\* an "ai" correction rewrites the content through the text provider, a
\* "manual" one records the author's changes; validation is re-run on the
\* module.
FixModule(S, dmc, method, r) ==
  {IF m.dmc = dmc
     THEN Validated([m EXCEPT
                       !.contentLen = IF method = "ai" THEN 50
                                      ELSE m.contentLen],
                    r, S)
     ELSE m : m \in S}

\* applyCorrections, entry: the distinct methods selected are to be sent.
applyCorrections ==
  /\ viewerPc = "idle"
  /\ Len(ShownErrors) > 0
  /\ fixQ' = {p[2] : p \in correctionSelections}
  /\ viewerPc' = "fixing"
  /\ UNCHANGED <<docList, docStatus, documents, uploading, store, dataModules,
                 run, runsStarted, processing, startQ, toolbarBusy, rules,
                 amberMax, designerVars, imageVars, providerVars, viewed,
                 correctionSelections, publishVars, yamlVars, modalVars,
                 authVars, ledVars, lockVars, hotspotVars, editorVars>>

\* applyCorrections, one round of the loop: the fix request for a method; a
\* request that fails is logged and the loop goes on.
fixModule(method, ok) ==
  /\ viewerPc = "fixing"
  /\ method \in fixQ
  /\ fixQ' = fixQ \ {method}
  /\ store' = IF ok THEN FixModule(store, viewed, method, rules) ELSE store
  /\ UNCHANGED <<docList, docStatus, documents, uploading, dataModules,
                 run, runsStarted, processing, startQ, toolbarBusy, rules,
                 amberMax, designerVars, imageVars, providerVars, viewed,
                 correctionSelections, viewerPc, publishVars, yamlVars,
                 modalVars, authVars, ledVars, lockVars, hotspotVars,
                 editorVars>>

\* applyCorrections after the loop: clear the selections and send the PUT
\* with no fields.
applyCorrectionsPut ==
  /\ viewerPc = "fixing"
  /\ fixQ = {}
  /\ correctionSelections' = {}
  /\ viewerPc' = "applied"
  /\ UNCHANGED <<docList, docStatus, documents, uploading, store, dataModules,
                 run, runsStarted, processing, startQ, toolbarBusy, rules,
                 amberMax, designerVars, imageVars, providerVars, viewed,
                 fixQ, publishVars, yamlVars, modalVars, authVars, ledVars,
                 lockVars, hotspotVars, editorVars>>

\* applyCorrections, end: updateDataModule reloads the list, "Corrections
\* applied" is shown.
applyCorrectionsDone ==
  /\ viewerPc = "applied"
  /\ viewerPc' = "idle"
  /\ dataModules' = store
  /\ UNCHANGED <<docList, docStatus, documents, uploading, store, run,
                 runsStarted, processing, startQ, toolbarBusy, rules, amberMax,
                 designerVars, imageVars, providerVars, viewed,
                 correctionSelections, fixQ, publishVars, yamlVars,
                 modalVars, authVars, ledVars, lockVars, hotspotVars,
                 editorVars>>

NextViewer ==
  \/ uploadDocument("d1")
  \/ uploadDocumentDone("d1")
  \/ apiProcess("d1", "air")
  \/ Pipeline({5}, {NoRef}, {"procedural"}, {""}, {92})
  \/ loadDataModules
  \/ \E dmc \in Dmcs(dataModules) : selectDataModule(dmc)
  \/ \E i \in 1..Len(ShownErrors), method \in {"manual", "ai"} :
       handleSelectionChange(i, method)
  \/ \E len \in {50} : handleSave(len)
  \/ \E dmc \in Dmcs(dataModules) : saveApplicability(dmc, "block-a")
  \/ updateDataModuleDone
  \/ applyCorrections
  \/ \E method \in fixQ, ok \in BOOLEAN : fixModule(method, ok)
  \/ applyCorrectionsPut
  \/ applyCorrectionsDone

SpecViewer == Init /\ [][NextViewer]_vars

\* ------------------------------------------ pipeline with embedded images
NextImages ==
  \/ uploadDocument("d1")
  \/ uploadDocumentDone("d1")
  \/ apiProcess("d1", "air")
  \/ Pipeline({50}, {NoRef}, {"procedural", "descriptive"},
              {"Engine Start"}, {92})
  \/ \E imgs \in ImageLists : DispatchImages("d1", imgs)
  \/ \E i \in 1..2 : linkLookup("d1", i)
  \/ \E i \in 1..2, ok \in BOOLEAN : linkVision("d1", i, ok)
  \/ \E i \in 1..2 : linkPersist("d1", i)
  \/ \E i \in 1..2 : linkFailed("d1", i)

SpecImages == Init /\ [][NextImages]_vars

\* ----------------------------------------------------------- publish modal
PublishVariants == {"verbatim", "ste"}
PublishFormats == {"xml", "html", "pdf", "docx"}
PublishScopes == {"all-green", "current", "all"}

\* A variant or format check box is switched.
togglePublishVariant(v) ==
  /\ publishResult = NoResult
  /\ publishConfig' =
       [publishConfig EXCEPT !.variants =
          IF v \in @ THEN @ \ {v} ELSE @ \cup {v}]
  /\ UNCHANGED <<coreVars, designerVars, imageVars, providerVars, viewerVars,
                 publishing, publishResult, publishRequests, yamlVars,
                 modalVars, authVars, ledVars, lockVars, hotspotVars,
                 editorVars>>

togglePublishFormat(f) ==
  /\ publishResult = NoResult
  /\ publishConfig' =
       [publishConfig EXCEPT !.formats =
          IF f \in @ THEN @ \ {f} ELSE @ \cup {f}]
  /\ UNCHANGED <<coreVars, designerVars, imageVars, providerVars, viewerVars,
                 publishing, publishResult, publishRequests, yamlVars,
                 modalVars, authVars, ledVars, lockVars, hotspotVars,
                 editorVars>>

setPublishScope(scope) ==
  /\ publishResult = NoResult
  /\ publishConfig.scope # scope
  /\ publishConfig' = [publishConfig EXCEPT !.scope = scope]
  /\ UNCHANGED <<coreVars, designerVars, imageVars, providerVars, viewerVars,
                 publishing, publishResult, publishRequests, yamlVars,
                 modalVars, authVars, ledVars, lockVars, hotspotVars,
                 editorVars>>

\* The modules handlePublish counts for the scope chosen.
modulesToPublish ==
  CASE publishConfig.scope = "all-green" ->
         {dm \in dataModules : dm.validation_status = "green"}
    [] publishConfig.scope = "current" ->
         {dm \in dataModules : dm.dmc = viewed}
    [] OTHER -> dataModules

\* handlePublish: the button is enabled with a variant and a format chosen;
\* the handler has no await, it builds the result itself and sets it.
handlePublish ==
  /\ publishResult = NoResult
  /\ ~publishing
  /\ publishConfig.variants # {} /\ publishConfig.formats # {}
  /\ publishResult' =
       <<[success |-> TRUE,
          modulesPublished |-> Cardinality(modulesToPublish),
          formats |-> publishConfig.formats,
          variants |-> publishConfig.variants]>>
  /\ publishing' = FALSE
  /\ UNCHANGED <<coreVars, designerVars, imageVars, providerVars, viewerVars,
                 publishConfig, publishRequests, yamlVars, modalVars,
                 authVars, ledVars, lockVars, hotspotVars, editorVars>>

\* The modal is closed; opened again it starts from its initial state.
closePublishModal ==
  /\ ~publishing
  /\ publishResult # NoResult
  /\ publishResult' = NoResult
  /\ publishConfig' = [variants |-> PublishVariants,
                       formats |-> PublishFormats,
                       scope |-> "all-green"]
  /\ UNCHANGED <<coreVars, designerVars, imageVars, providerVars, viewerVars,
                 publishing, publishRequests, yamlVars, modalVars, authVars,
                 ledVars, lockVars, hotspotVars, editorVars>>

NextPublish ==
  \/ \E v \in PublishVariants : togglePublishVariant(v)
  \/ \E f \in PublishFormats : togglePublishFormat(f)
  \/ \E scope \in PublishScopes : setPublishScope(scope)
  \/ handlePublish
  \/ closePublishModal

SpecPublish == Init /\ [][NextPublish]_vars

NextRules ==
  \/ uploadDocument("d1")
  \/ uploadDocumentDone("d1")
  \/ apiProcess("d1", "air")
  \/ ExtractOk("d1", 50, NoRef)
  \/ ClassifyOk("d1", "procedural", "Engine Start")
  \/ PersistVerbatim("d1")
  \/ RewriteOk("d1", 92)
  \/ PersistSimplified("d1")
  \/ ValidateNew("d1")
  \/ Complete("d1")
  \/ loadDataModules
  \/ toggleYamlEditing
  \/ \E t \in {YAMLstringify(NotAMapping), BrokenYaml} : setYamlContent(t)
  \/ \E t \in YamlTexts : importRules(t)
  \/ saveBREXRules
  \/ saveBREXRulesFailed
  \/ saveBREXRulesParseError
  \/ \E dmc \in saveQ : validateAllDataModules(dmc)
  \/ validateAllDataModulesDone

SpecRules == Init /\ [][NextRules]_vars

\* ------------------------------------------------------- AI provider modal
\* Providers and sides whose rows are exercised in the modal.
ModalProviders == {"openai", "anthropic"}
TestKeys == {<<"text", "openai">>, <<"text", "anthropic">>,
             <<"vision", "anthropic">>}

\* A provider radio of the modal is chosen.
setSelectedProvider(side, provider) ==
  /\ selectedProviders[side] # provider
  /\ selectedProviders' = [selectedProviders EXCEPT ![side] = provider]
  /\ UNCHANGED <<coreVars, designerVars, imageVars, providerVars, viewerVars,
                 publishVars, yamlVars, testsInFlight, testResults, authVars,
                 ledVars, lockVars, hotspotVars, editorVars>>

\* A test request: POST /api/test/text or /api/test/vision carries the sample
\* and the task type, and no provider; the backend serves it with the
\* provider its factory returns, the active one of that side.
TestRequest(side, provider) ==
  /\ <<side, provider>> \in TestKeys
  /\ \A t \in testsInFlight : t.key # <<side, provider>>
  /\ testsInFlight' = testsInFlight \cup
       {[key |-> <<side, provider>>, servedBy |-> activeProviders[side]]}
  /\ UNCHANGED <<coreVars, designerVars, imageVars, providerVars, viewerVars,
                 publishVars, yamlVars, selectedProviders, testResults,
                 authVars, ledVars, lockVars, hotspotVars, editorVars>>

\* testTextProvider, up to the POST.
testTextProvider(provider) == TestRequest("text", provider)

\* testVisionProvider, up to the POST.
testVisionProvider(provider) == TestRequest("vision", provider)

\* testTextProvider / testVisionProvider after the POST: the outcome is
\* stored under the key of the row whose Test button was pressed.
testProviderDone(t, ok) ==
  /\ t \in testsInFlight
  /\ testsInFlight' = testsInFlight \ {t}
  /\ testResults' = {r \in testResults : r.key # t.key} \cup
       {[key |-> t.key, success |-> ok, producedBy |-> t.servedBy]}
  /\ UNCHANGED <<coreVars, designerVars, imageVars, providerVars, viewerVars,
                 publishVars, yamlVars, selectedProviders, authVars, ledVars,
                 lockVars, hotspotVars, editorVars>>

\* AIProviderModal.handleSave: updateAIProviders with the modal's choice,
\* then the modal closes; opened again it starts from the saved pair with no
\* test results.
saveProviderChoice ==
  /\ activeProviders # selectedProviders
  /\ activeProviders' = selectedProviders
  /\ aiProviders' = selectedProviders
  /\ testResults' = {}
  /\ testsInFlight' = {}
  /\ UNCHANGED <<coreVars, designerVars, imageVars, ops, viewerVars,
                 publishVars, yamlVars, selectedProviders, authVars, ledVars,
                 lockVars, hotspotVars, editorVars>>

NextProviderModal ==
  \/ \E side \in {"text", "vision"}, provider \in ModalProviders :
       setSelectedProvider(side, provider)
  \/ \E provider \in ModalProviders : testTextProvider(provider)
  \/ \E provider \in ModalProviders : testVisionProvider(provider)
  \/ \E t \in testsInFlight, ok \in BOOLEAN : testProviderDone(t, ok)
  \/ saveProviderChoice

SpecProviderModal == Init /\ [][NextProviderModal]_vars

\* ----------------------------------------------------------- authorization
AccessTokens == {<<"jwt1">>, <<"jwt2">>}

\* Routes requested through the `api` instance of lib/api.js.
InstanceRoutes ==
  {<<"api", "data-modules">>, <<"api", "documents">>, <<"api", "icns">>,
   <<"api", "providers/set">>, <<"api", "publication-modules">>}

\* Routes requested with fetch or the bare axios import.
DirectRoutes ==
  {<<"api", "validate">>, <<"api", "settings">>, <<"api", "fix-module">>,
   <<"api", "test/text">>}

IsApiRoute(route) == route[1] = "api"

\* The request interceptor of the `api` instance: the Authorization header
\* is set from the stored token, if there is one.
interceptor(stored) == IF stored # NoToken THEN stored ELSE NoToken

\* Login.handleSubmit: POST /auth/token through the instance; the token of
\* the answer is stored and the page reloaded.
handleSubmit(t, ok) ==
  /\ token = NoToken
  /\ sent' = sent \cup {[route |-> <<"auth", "token">>,
                         authorization |-> interceptor(token)]}
  /\ token' = IF ok THEN t ELSE token
  /\ UNCHANGED <<coreVars, designerVars, imageVars, providerVars, viewerVars,
                 publishVars, yamlVars, modalVars, ledVars, lockVars,
                 hotspotVars, editorVars>>

\* A request of the application through the `api` instance; the application
\* is rendered only with a token stored.
apiRequest(route) ==
  /\ token # NoToken
  /\ sent' = sent \cup {[route |-> route,
                         authorization |-> interceptor(token)]}
  /\ UNCHANGED <<coreVars, designerVars, imageVars, providerVars, viewerVars,
                 publishVars, yamlVars, modalVars, token, ledVars, lockVars,
                 hotspotVars, editorVars>>

\* A request of the application sent with fetch or bare axios: no
\* interceptor runs and the call sets no Authorization header.
fetchRequest(route) ==
  /\ token # NoToken
  /\ sent' = sent \cup {[route |-> route, authorization |-> NoToken]}
  /\ UNCHANGED <<coreVars, designerVars, imageVars, providerVars, viewerVars,
                 publishVars, yamlVars, modalVars, token, ledVars, lockVars,
                 hotspotVars, editorVars>>

NextAuth ==
  \/ \E t \in AccessTokens, ok \in BOOLEAN : handleSubmit(t, ok)
  \/ \E route \in InstanceRoutes : apiRequest(route)
  \/ \E route \in DirectRoutes : fetchRequest(route)

SpecAuth == Init /\ [][NextAuth]_vars

\* ----------------------------------------------------------- LED indicator
\* calculateGlobalLEDStatus: count the modules per status, then red before
\* amber before blue, green otherwise.
calculateGlobalLEDStatus(modules) ==
  LET statusCounts(s) ==
        Cardinality({m \in modules : m.validation_status = s})
  IN  IF statusCounts("red") > 0 THEN "red"
      ELSE IF statusCounts("amber") > 0 THEN "amber"
      ELSE IF statusCounts("blue") > 0 THEN "blue"
      ELSE "green"

\* App state `globalLEDStatus`: loadDataModules sets it from the list it has
\* just loaded.
appLEDStatus == calculateGlobalLEDStatus(dataModules)

\* ---------------------------------------------------------- lock and delete
\* handleLock: the Lock button toggles the flag.
handleLock ==
  /\ ~toolbarBusy
  /\ locked' = ~locked
  /\ UNCHANGED <<coreVars, designerVars, imageVars, providerVars, viewerVars,
                 publishVars, yamlVars, modalVars, authVars, ledVars,
                 deleting, hotspotVars, editorVars>>

\* handleDelete, up to the DELETE of deleteDataModule: the backend removes
\* the current module.
handleDelete ==
  /\ ~toolbarBusy
  /\ viewed # NoRef
  /\ toolbarBusy' = TRUE
  /\ store' = {m \in store : m.dmc # viewed}
  /\ deleting' = viewed
  /\ UNCHANGED <<docList, docStatus, documents, uploading, dataModules, run,
                 runsStarted, processing, startQ, rules, amberMax,
                 designerVars, imageVars, providerVars, viewerVars,
                 publishVars, yamlVars, modalVars, authVars, ledVars, locked,
                 hotspotVars, editorVars>>

\* deleteDataModule after the DELETE: the current module is cleared, the list
\* reloaded; handleDelete's finally block ends the toolbar's busy state.
deleteDataModuleDone ==
  /\ deleting # NoRef
  /\ viewed' = IF viewed = deleting THEN NoRef ELSE viewed
  /\ dataModules' = store
  /\ toolbarBusy' = FALSE
  /\ deleting' = NoRef
  /\ UNCHANGED <<docList, docStatus, documents, uploading, store, run,
                 runsStarted, processing, startQ, rules, amberMax,
                 designerVars, imageVars, providerVars, correctionSelections,
                 viewerPc, fixQ, publishVars, yamlVars, modalVars, authVars,
                 ledVars, locked, hotspotVars, editorVars>>

NextLock ==
  \/ uploadDocument("d1")
  \/ apiProcess("d1", "air")
  \/ ExtractOk("d1", 5, NoRef)
  \/ ClassifyOk("d1", "procedural", "")
  \/ PersistVerbatim("d1")
  \/ RewriteOk("d1", 92)
  \/ PersistSimplified("d1")
  \/ ValidateNew("d1")
  \/ Complete("d1")
  \/ loadDataModules
  \/ \E dmc \in Dmcs(dataModules) : selectDataModule(dmc)
  \/ \E i \in 1..Len(ShownErrors) : handleSelectionChange(i, "manual")
  \/ \E len \in {50} : handleSave(len)
  \/ updateDataModuleDone
  \/ applyCorrections
  \/ \E method \in fixQ : fixModule(method, TRUE)
  \/ applyCorrectionsPut
  \/ applyCorrectionsDone
  \/ handleLock
  \/ handleDelete
  \/ deleteDataModuleDone

SpecLock == Init /\ [][NextLock]_vars

\* ---------------------------------------------------- illustration manager
MaxCreated == 2
MaxHistoryLen == 2

\* What a handler reads: the state of the render it was created in.
CurrentView ==
  [hotspots |-> hotspots, hotspotHistory |-> hotspotHistory,
   historyIndex |-> historyIndex, selectedHotspot |-> selectedHotspot]

\* The keyboard effect depends on [selectedHotspot, historyIndex]: the keydown
\* handler is registered again, with the state of the new render, only when
\* one of the two has changed.
Rerender ==
  keyClosure' =
    IF selectedHotspot' # selectedHotspot \/ historyIndex' # historyIndex
      THEN [hotspots |-> hotspots', hotspotHistory |-> hotspotHistory',
            historyIndex |-> historyIndex',
            selectedHotspot |-> selectedHotspot']
      ELSE keyClosure

\* What the manager leaves alone.
ManagerFrame ==
  UNCHANGED <<coreVars, designerVars, imageVars, providerVars, viewerVars,
              publishVars, yamlVars, modalVars, authVars, ledVars, lockVars,
              editorVars>>

\* An ICN of the grid is clicked; the effect on selectedICN loads its
\* hotspots and starts the history.  The selected hotspot is kept.
setSelectedICN(icn) ==
  /\ icn # selectedICN
  /\ selectedICN' = icn
  /\ hotspots' = savedHotspots[icn]
  /\ hotspotHistory' = <<savedHotspots[icn]>>
  /\ historyIndex' = 0
  /\ UNCHANGED <<savedHotspots, selectedHotspot, nextHotspotId, editorVars>>
  /\ Rerender
  /\ ManagerFrame

\* A hotspot of the list is clicked.
setSelectedHotspot(h) ==
  /\ h \in hotspots
  /\ selectedHotspot # {h}
  /\ selectedHotspot' = {h}
  /\ UNCHANGED <<savedHotspots, selectedICN, hotspots, hotspotHistory,
                 historyIndex, nextHotspotId, editorVars>>
  /\ Rerender
  /\ ManagerFrame

\* Array.prototype.slice(0, end): the first end entries, all of them when
\* there are fewer.
slice(seq, end) ==
  SubSeq(seq, 1, IF end > Len(seq) THEN Len(seq) ELSE end)

\* addToHistory, in the view v of the calling handler: the entries up to the
\* view's index, then the new list.
addToHistory(v, newHotspots) ==
  Append(slice(v.hotspotHistory, v.historyIndex + 1), newHotspots)

\* A handler sets the list and adds it to the history.
SetAndRecord(v, newHotspots) ==
  /\ Len(addToHistory(v, newHotspots)) <= MaxHistoryLen
  /\ hotspots' = newHotspots
  /\ hotspotHistory' = addToHistory(v, newHotspots)
  /\ historyIndex' = Len(addToHistory(v, newHotspots)) - 1

\* A hotspot made now: its id is the time, it is made while the selected ICN
\* is shown.
NewHotspot == [id |-> nextHotspotId, origin |-> selectedICN]

\* handleMouseUp: a rectangle of at least the minimum size was drawn.
handleMouseUp ==
  /\ selectedICN # NoSelection
  /\ nextHotspotId <= MaxCreated
  /\ SetAndRecord(CurrentView, hotspots \cup {NewHotspot})
  /\ nextHotspotId' = nextHotspotId + 1
  /\ UNCHANGED <<savedHotspots, selectedICN, selectedHotspot, editorVars>>
  /\ Rerender
  /\ ManagerFrame

\* acceptAISuggestion: the suggestion becomes a hotspot of the list.
acceptAISuggestion ==
  /\ selectedICN # NoSelection
  /\ nextHotspotId <= MaxCreated
  /\ SetAndRecord(CurrentView, hotspots \cup {NewHotspot})
  /\ nextHotspotId' = nextHotspotId + 1
  /\ UNCHANGED <<savedHotspots, selectedICN, selectedHotspot, editorVars>>
  /\ Rerender
  /\ ManagerFrame

\* The list of view v with the hotspot of the given id edited: the hotspot is
\* written again while the selected ICN is shown.
Edited(v, id) ==
  {IF h.id = id THEN [h EXCEPT !.origin = selectedICN] ELSE h :
     h \in v.hotspots}

\* applyTemplate: the template is applied to the selected hotspot.
applyTemplate ==
  /\ selectedHotspot # {}
  /\ \E sel \in selectedHotspot :
       SetAndRecord(CurrentView, Edited(CurrentView, sel.id))
  /\ UNCHANGED <<savedHotspots, selectedICN, selectedHotspot, nextHotspotId,
                 editorVars>>
  /\ Rerender
  /\ ManagerFrame

\* updateHotspot: a field of the properties panel is changed.
updateHotspot ==
  /\ selectedHotspot # {}
  /\ \E sel \in selectedHotspot :
       SetAndRecord(CurrentView, Edited(CurrentView, sel.id))
  /\ UNCHANGED <<savedHotspots, selectedICN, selectedHotspot, nextHotspotId,
                 editorVars>>
  /\ Rerender
  /\ ManagerFrame

\* deleteHotspot, run in view v.
deleteHotspot(v, id) ==
  /\ SetAndRecord(v, {h \in v.hotspots : h.id # id})
  /\ selectedHotspot' = {}
  /\ UNCHANGED <<savedHotspots, selectedICN, nextHotspotId, editorVars>>

\* duplicateHotspot, run in view v: nothing happens when the view's list has
\* no hotspot of that id.
duplicateHotspot(v, id) ==
  /\ \E original \in v.hotspots : original.id = id
  /\ nextHotspotId <= MaxCreated
  /\ SetAndRecord(v, v.hotspots \cup {NewHotspot})
  /\ nextHotspotId' = nextHotspotId + 1
  /\ UNCHANGED <<savedHotspots, selectedICN, selectedHotspot, editorVars>>

\* undo, run in view v.
undo(v) ==
  /\ v.historyIndex > 0
  /\ historyIndex' = v.historyIndex - 1
  /\ hotspots' = v.hotspotHistory[v.historyIndex]
  /\ UNCHANGED <<savedHotspots, selectedICN, selectedHotspot, hotspotHistory,
                 nextHotspotId, editorVars>>

\* redo, run in view v.
redo(v) ==
  /\ v.historyIndex < Len(v.hotspotHistory) - 1
  /\ historyIndex' = v.historyIndex + 1
  /\ hotspots' = v.hotspotHistory[v.historyIndex + 2]
  /\ UNCHANGED <<savedHotspots, selectedICN, selectedHotspot, hotspotHistory,
                 nextHotspotId, editorVars>>

\* The buttons of the panel call the handlers of the current render.
clickButton(button) ==
  /\ CASE button = "delete" ->
            /\ selectedHotspot # {}
            /\ \E sel \in selectedHotspot : deleteHotspot(CurrentView, sel.id)
       [] button = "duplicate" ->
            /\ selectedHotspot # {}
            /\ \E sel \in selectedHotspot :
                 duplicateHotspot(CurrentView, sel.id)
       [] button = "undo" -> undo(CurrentView)
       [] button = "redo" -> redo(CurrentView)
  /\ Rerender
  /\ ManagerFrame

\* handleKeyDown: the registered handler runs with the state it captured.
handleKeyDown(key) ==
  /\ CASE key = "Delete" ->
            /\ keyClosure.selectedHotspot # {}
            /\ \E sel \in keyClosure.selectedHotspot :
                 deleteHotspot(keyClosure, sel.id)
       [] key = "Ctrl+D" ->
            /\ keyClosure.selectedHotspot # {}
            /\ \E sel \in keyClosure.selectedHotspot :
                 duplicateHotspot(keyClosure, sel.id)
       [] key = "Ctrl+Z" -> undo(keyClosure)
       [] key = "Ctrl+Y" -> redo(keyClosure)
       [] key = "Escape" ->
            /\ selectedHotspot # {}
            /\ selectedHotspot' = {}
            /\ UNCHANGED <<savedHotspots, selectedICN, hotspots,
                           hotspotHistory, historyIndex, nextHotspotId,
                           editorVars>>
  /\ Rerender
  /\ ManagerFrame

\* saveCaption: PUT /api/icns/{icn_id} with the caption and the list shown,
\* then the ICN list is loaded again.
saveCaption ==
  /\ selectedICN # NoSelection
  /\ savedHotspots[selectedICN] # hotspots
  /\ savedHotspots' = [savedHotspots EXCEPT ![selectedICN] = hotspots]
  /\ UNCHANGED <<selectedICN, hotspots, selectedHotspot, hotspotHistory,
                 historyIndex, nextHotspotId, keyClosure, editorVars>>
  /\ ManagerFrame

NextManager ==
  \/ \E icn \in ManagerIcns : setSelectedICN(icn)
  \/ \E h \in hotspots : setSelectedHotspot(h)
  \/ handleMouseUp
  \/ acceptAISuggestion
  \/ applyTemplate
  \/ updateHotspot
  \/ \E button \in {"delete", "duplicate", "undo", "redo"} :
       clickButton(button)
  \/ \E key \in {"Delete", "Ctrl+D", "Ctrl+Z", "Ctrl+Y", "Escape"} :
       handleKeyDown(key)
  \/ saveCaption

SpecManager == Init /\ [][NextManager]_vars

\* ------------------------------------------------------- rich text editor
\* Content is a sequence of tokens: tags, a run of text, a line break.
MaxTokens == 5
Text == "text"
Newline == "\n"
XmlOpenTags == {"<para>", "<warning>", "<caution>"}
XmlCloseTags == {"</para>", "</warning>", "</caution>"}
XmlTokens == XmlOpenTags \cup XmlCloseTags \cup {Text, Newline}
DivWarning == "<div class=\"warning\">"
DivCaution == "<div class=\"caution\">"
DivClose == "</div>"

\* The closing tag of an opening tag.
ClosingOf(tag) ==
  CASE tag = "<para>" -> "</para>"
    [] tag = "<warning>" -> "</warning>"
    [] tag = "<caution>" -> "</caution>"

\* s[i..] closes the elements of the stack in order and leaves none open:
\* the content is built from para, warning and caution elements.
RECURSIVE Nested(_, _, _)
Nested(s, i, stack) ==
  IF i > Len(s) THEN stack = <<>>
  ELSE IF s[i] \in XmlOpenTags
    THEN Nested(s, i + 1, <<ClosingOf(s[i])>> \o stack)
  ELSE IF s[i] \in XmlCloseTags
    THEN stack # <<>> /\ Head(stack) = s[i] /\ Nested(s, i + 1, Tail(stack))
  ELSE stack # <<>> /\ Nested(s, i + 1, stack)

\* The XML contents of at most MaxTokens tokens.
XmlContents ==
  {s \in UNION {[1..n -> XmlTokens] : n \in 0..MaxTokens} : Nested(s, 1, <<>>)}

\* replace(/from/g, to) for a literal tag.
replaceTag(s, from, to) ==
  [i \in 1..Len(s) |-> IF s[i] = from THEN to ELSE s[i]]

\* replace(/open(.*?)close/g, 'newOpen$1newClose'), from position i on: an
\* opening tag is matched with the first closing tag after it unless a line
\* break lies between them (`.` matches no line break); the search goes on
\* after the match, or at the next token when there is none.
RECURSIVE replacePairs(_, _, _, _, _, _)
replacePairs(s, i, open, close, newOpen, newClose) ==
  IF i > Len(s) THEN s
  ELSE IF s[i] # open
    THEN replacePairs(s, i + 1, open, close, newOpen, newClose)
  ELSE LET closes == {j \in (i + 1)..Len(s) : s[j] = close}
       IN IF closes = {} THEN s
          ELSE LET j == CHOOSE c \in closes : \A o \in closes : c <= o
               IN IF \E k \in (i + 1)..(j - 1) : s[k] = Newline
                    THEN replacePairs(s, i + 1, open, close, newOpen,
                                      newClose)
                    ELSE replacePairs(
                           [s EXCEPT ![i] = newOpen, ![j] = newClose],
                           j + 1, open, close, newOpen, newClose)

\* xmlToHtml: the four replacements in the order of the code.
xmlToHtml(xml) ==
  replacePairs(
    replacePairs(
      replaceTag(replaceTag(xml, "<para>", "<p>"), "</para>", "</p>"),
      1, "<warning>", "</warning>", DivWarning, DivClose),
    1, "<caution>", "</caution>", DivCaution, DivClose)

\* htmlToXml: the four replacements in the order of the code.
htmlToXml(html) ==
  replaceTag(
    replaceTag(
      replacePairs(
        replacePairs(html, 1, DivWarning, DivClose, "<warning>",
                     "</warning>"),
        1, DivCaution, DivClose, "<caution>", "</caution>"),
      "<p>", "<para>"),
    "</p>", "</para>")

\* What the editor leaves alone.
EditorFrame ==
  UNCHANGED <<coreVars, designerVars, imageVars, providerVars, viewerVars,
              publishVars, yamlVars, modalVars, authVars, ledVars, lockVars,
              hotspotVars>>

\* The editor is opened on a content.
InitEditor ==
  /\ InitApp
  /\ editorContent \in XmlContents
  /\ htmlContent = xmlToHtml(editorContent)
  /\ editorOut = <<>>
  /\ editorEmitted = FALSE

\* insertBlock: a warning or caution block is pasted at the start.
insertBlock(cls) ==
  <<IF cls = "warning" THEN DivWarning ELSE DivCaution, Text, DivClose>>
    \o htmlContent

\* handleChange: the editor reports its value (the value it was given, or
\* the value after an inserted block); the state takes it and onChange gets
\* its XML.
handleChange(value) ==
  /\ Len(value) <= MaxTokens
  /\ ~(editorEmitted /\ value = htmlContent)
  /\ htmlContent' = value
  /\ editorOut' = htmlToXml(value)
  /\ editorEmitted' = TRUE
  /\ UNCHANGED editorContent
  /\ EditorFrame

\* The parent stores what onChange gave it and passes it back as content;
\* the effect on content renders it.
contentEffect ==
  /\ editorEmitted
  /\ editorOut # editorContent
  /\ editorContent' = editorOut
  /\ htmlContent' = xmlToHtml(editorOut)
  /\ UNCHANGED <<editorOut, editorEmitted>>
  /\ EditorFrame

NextEditor ==
  \/ handleChange(htmlContent)
  \/ \E cls \in {"warning", "caution"} : handleChange(insertBlock(cls))
  \/ contentEffect

SpecEditor == InitEditor /\ [][NextEditor]_vars

\* ================================================================== claims
\* The run of document d is over: the document is completed or failed and no
\* pipeline step is pending (the toolbar may still owe it its continuation).
RunEnded(d) ==
  /\ run[d].pc \in {"idle", "respond"}
  /\ docStatus[d] \in {"completed", "failed"}

ModulesOf(S, d) == {m \in S : m.source_document_id = d}

\* The stored modules a run created.
CreatedBy(d) == {m \in store : m.dmc \in run[d].created}

Terminal == {"completed", "failed"}

C2_ClassifyFailNoModule ==
  \A d \in Docs :
    (RunEnded(d) /\ run[d].clsFailed) =>
      docStatus[d] = "failed" /\ ModulesOf(store, d) = {}

\* C2 amended: after a run whose classification failed the document is failed
\* and the run has created no module (modules of earlier runs on the same
\* document stay in the store).
C2_ClassifyFailCreatesNone ==
  \A d \in Docs :
    (RunEnded(d) /\ run[d].clsFailed) =>
      docStatus[d] = "failed" /\ run[d].created = {} /\ ~run[d].rwFailed

\* A run failed at classification on a document that has modules of an
\* earlier run.
C2_Witness ==
  \E d \in Docs :
    RunEnded(d) /\ run[d].clsFailed /\ ModulesOf(store, d) # {}

\* ---------------------------------------------------------------------- C3
\* C3 as stated: after a run in which classification succeeded and
\* rewrite_ste failed, exactly one module exists for the document, it is the
\* verbatim one, and the document is completed.
C3_RewriteFailOneModule ==
  \A d \in Docs :
    (RunEnded(d) /\ run[d].rwFailed) =>
      /\ docStatus[d] = "completed"
      /\ Cardinality(ModulesOf(store, d)) = 1
      /\ \A m \in ModulesOf(store, d) : m.info_variant = Verbatim

\* C3 amended: after such a run the run has created exactly one module, the
\* verbatim one, and the document is completed.
C3_RewriteFailCreatesVerbatim ==
  \A d \in Docs :
    (RunEnded(d) /\ run[d].rwFailed) =>
      /\ docStatus[d] = "completed"
      /\ Cardinality(CreatedBy(d)) = 1
      /\ \A m \in CreatedBy(d) :
           m.info_variant = Verbatim /\ m.source_document_id = d

\* A run ended after its rewrite failed.
C3_Witness ==
  \E d \in Docs :
    RunEnded(d) /\ run[d].rwFailed /\ Cardinality(CreatedBy(d)) = 1

\* ---------------------------------------------------------------------- C4
\* C4 as stated: after a run in which a provider call (classify, rewrite_ste)
\* failed the document is failed and, for that document, both variants exist
\* or no module does.
C4_ProviderFailureAllOrNothing ==
  \A d \in Docs :
    (RunEnded(d) /\ (run[d].clsFailed \/ run[d].rwFailed)) =>
      /\ docStatus[d] = "failed"
      /\ {m.info_variant : m \in ModulesOf(store, d)} \in
           { {}, {Verbatim, Simplified} }

\* C4 amended: after a run in which a provider call failed, the document is
\* failed exactly when the failed call was classify, and then the run left no
\* module; a failed rewrite_ste leaves the document completed and the run's
\* verbatim module without a simplified one.
C4_ProviderFailureOutcome ==
  \A d \in Docs :
    (RunEnded(d) /\ (run[d].clsFailed \/ run[d].rwFailed)) =>
      /\ docStatus[d] = "failed" <=> run[d].clsFailed
      /\ {m.info_variant : m \in CreatedBy(d)} =
           IF run[d].clsFailed THEN {} ELSE {Verbatim}

\* A run ended completed although its rewrite_ste call failed.
C4_Witness ==
  \E d \in Docs :
    RunEnded(d) /\ run[d].rwFailed /\ docStatus[d] = "completed"

\* ---------------------------------------------------------------------- C5
SiblingStored(S) ==
  \A m \in S :
    m.info_variant = Simplified =>
      \E v \in S : /\ v.info_variant = Verbatim
                   /\ v.source_document_id = m.source_document_id

C6_NoDuplicateIdentifier ==
  /\ \A m1, m2 \in store : m1.dmc = m2.dmc => m1 = m2
  /\ \A d \in Docs : ~run[d].dup

\* ---------------------------------------------------------------------- C7
\* C7 as stated: a stored module is blue exactly when the validation engine
\* has never run on it.
C7_BlueIffNeverValidated ==
  \A m \in store : (m.validation_status = "blue") <=> ~m.validated

\* ---------------------------------------------------------------------- C8
WarningMessages == {"STE score below warning threshold"}

\* Severity aggregation: no finding, green; a hard failure, red; else amber.
SeverityStatus(errors) ==
  IF Len(errors) = 0 THEN "green"
  ELSE IF \E i \in 1..Len(errors) : errors[i] \notin WarningMessages
    THEN "red"
  ELSE "amber"

\* C8 as stated: a validated module's status is the severity aggregation of
\* the findings of its validation.
C8_StatusBySeverity ==
  \A m \in store :
    m.validated => m.validation_status = SeverityStatus(m.validation_errors)

\* ---------------------------------------------------------------------- C9
\* C9 as stated: a validated simplified module whose score is below the
\* minimum is red, and one whose score is between the minimum and the warn
\* threshold is amber or red.
C9_ScoreThresholds ==
  \A m \in store :
    (m.validated /\ m.info_variant = Simplified) =>
      /\ m.ste_score < m.validatedWith.minScore => m.validation_status = "red"
      /\ (m.ste_score >= m.validatedWith.minScore
            /\ m.ste_score < m.validatedWith.warnBelowScore) =>
           m.validation_status \in {"amber", "red"}

\* --------------------------------------------------------------------- C10
SameValidationFields(m, S) ==
  \E n \in S : /\ n.dmc = m.dmc
               /\ n.validation_status = m.validation_status
               /\ n.validation_errors = m.validation_errors

C11_SaveValidatesEveryModule ==
  [][(savePc = "validating" /\ savePc' = "idle" /\ ~designerError') =>
       \A m \in store' : m.validated /\ m.validatedWith = rules'
    ]_vars

\* --------------------------------------------------------------------- C12
\* The codes a and b are equal in every segment but the variant segment, and
\* differ there.
DifferOnlyInVariant(a, b) ==
  /\ Len(a) = Len(b)
  /\ \A i \in 1..Len(a) : (a[i] # b[i]) <=> (i = VariantSegment)

C13_FallbackPersistsAndContinues ==
  [][\A d \in Docs :
       (run[d].pc = "persist00" /\ run'[d].pc # "persist00"
          /\ IncompleteClassification(run[d].dmType)) =>
         /\ assign(run[d].defaults, GenericType, Verbatim) \in run'[d].created
         /\ docStatus'[d] # "failed"
         /\ run'[d].pc = "rewrite"
    ]_vars

\* --------------------------------------------------------------------- C14
\* C14 as stated: the ICN store holds one record per checksum, and the link
\* calls that ended for images of one checksum returned one icn_id.
C14_LinkIdempotent ==
  /\ \A r1, r2 \in icns : r1.checksum = r2.checksum => r1 = r2
  /\ \A d \in Docs : \A i, j \in 1..Len(imgTasks[d]) :
       (imgTasks[d][i].pc = "done" /\ imgTasks[d][j].pc = "done"
          /\ imgTasks[d][i].img = imgTasks[d][j].img) =>
         imgTasks[d][i].icn = imgTasks[d][j].icn

\* --------------------------------------------------------------------- C15
\* C15: in the step that marks a document completed, every image task of its
\* run has completed or been recorded as failed.
C15_CompletedAfterImageTasks ==
  [][\A d \in Docs :
       (docStatus[d] # "completed" /\ docStatus'[d] = "completed") =>
         \A i \in 1..Len(imgTasks[d]) :
           imgTasks[d][i].pc \in {"done", "failed"}
    ]_vars

\* A document is completed whose run had one image task complete and one
\* recorded as failed.
C15_Witness ==
  \E d \in Docs :
    /\ docStatus[d] = "completed"
    /\ \E i, j \in 1..Len(imgTasks[d]) :
         imgTasks[d][i].pc = "done" /\ imgTasks[d][j].pc = "failed"

\* --------------------------------------------------------------------- C16
\* C16: a completed provider operation was served by the provider that was
\* active for its side when it started, and an operation in flight holds
\* that provider, whatever swaps happened meanwhile.
C16_OperationKeepsProvider ==
  \A o \in OpIds :
    /\ ops[o].pc = "done" => ops[o].servedBy = ops[o].activeAtStart
    /\ ops[o].pc = "inflight" => ops[o].provider = ops[o].activeAtStart

\* An operation completed after its side's provider was swapped in flight,
\* while another operation started after the swap holds the new provider.
C16_Witness ==
  \E o, n \in OpIds :
    /\ ops[o].pc = "done" /\ ops[o].swapped
    /\ ops[o].servedBy # activeProviders[Side(ops[o].kind)]
    /\ ops[n].pc = "inflight" /\ ~ops[n].swapped
    /\ Side(ops[n].kind) = Side(ops[o].kind)
    /\ ops[n].provider = activeProviders[Side(ops[n].kind)]

\* --------------------------------------------------------------------- C17
\* C17 as stated: a document submitted with Start and still waiting for its
\* turn stays submitted, whatever happens to the run of the document before
\* it; only the document at the head of the queue leaves it.
C17_FailedRunDoesNotAbortOthers ==
  [][\A i \in 2..Len(startQ) :
       \E j \in 1..Len(startQ') : startQ'[j] = startQ[i]
    ]_vars

\* --------------------------------------------------------------------- C18
ValidationFields(m) ==
  <<m.validation_status, m.validation_errors, m.ste_score>>

\* C18: a step of an author operation (the PUT of handleSave or of
\* saveApplicability) changes, in the stored module, the content or the
\* applicability and nothing else; and whenever a stored module's validation
\* fields change, the new ones are the validation engine's result for the
\* module, its ste_score staying as it was.
C18_AuthorOpsKeepValidationFields ==
  [][\A m \in store : \A n \in store' :
       n.dmc = m.dmc =>
         /\ (viewerPc = "idle" /\ viewerPc' = "reload") =>
              /\ ValidationFields(n) = ValidationFields(m)
              /\ \/ n = [m EXCEPT !.contentLen = n.contentLen]
                 \/ n = [m EXCEPT !.applicability = n.applicability]
         /\ ValidationFields(n) # ValidationFields(m) =>
              /\ n.ste_score = m.ste_score
              /\ n.validation_status = StatusOf(Findings(n, rules, store))
              /\ n.validation_errors = ErrorList(Findings(n, rules, store))
    ]_vars

\* A validated module whose content and applicability were saved afterwards
\* still carries the errors of the content it was validated with.
C18_Witness ==
  \E m \in store :
    /\ m.validated
    /\ m.contentLen = 50
    /\ m.applicability = "block-a"
    /\ \E i \in 1..Len(m.validation_errors) :
         m.validation_errors[i] = "Content is too short"

\* --------------------------------------------------------------------- C19
AtMostOneMethod(sel) == \A p, q \in sel : p[1] = q[1] => p = q

C20_AppliedCorrectionsRevalidated ==
  [][(viewerPc = "applied" /\ viewerPc' = "idle") =>
       /\ correctionSelections' = {}
       /\ \A n \in store' :
            n.dmc = viewed =>
              /\ n.validation_status = StatusOf(Findings(n, rules', store'))
              /\ n.validation_errors = ErrorList(Findings(n, rules', store'))
    ]_vars

\* --------------------------------------------------------------------- C21
\* C21 as stated: a step of Publish Package that shows a publication result
\* (taken with a variant and a format selected) has sent a request to the
\* backend.
C21_PublishSendsRequest ==
  [][(publishResult = NoResult /\ publishResult' # NoResult
        /\ publishConfig.variants # {} /\ publishConfig.formats # {}) =>
       publishRequests' > publishRequests]_vars

\* --------------------------------------------------------------------- C22
\* C22 as stated: while the configuration last submitted (Save & Validate or
\* Import) was malformed, the designer shows an error, the backend's rule set
\* is a well-formed one saved before, and no stored module was validated
\* against anything but a well-formed rule set.
C22_MalformedRulesSurfaced ==
  lastSubmitMalformed =>
    /\ designerError
    /\ IsMapping(rules)
    /\ \A m \in store : m.validated => IsMapping(m.validatedWith)

\* --------------------------------------------------------------------- C23
\* C23 as stated: every successful test result the modal holds under the key
\* of provider P was produced by provider P.
C23_TestExercisesSelectedProvider ==
  \A r \in testResults : r.success => r.producedBy = r.key[2]

\* --------------------------------------------------------------------- C24
\* C24 as stated: every request sent to an /api route carries the stored
\* access token in its Authorization header, and while no token is stored no
\* /api request has been sent.
C24_ApiRequestsCarryToken ==
  \A r \in sent :
    IsApiRoute(r.route) => token # NoToken /\ r.authorization = token

\* --------------------------------------------------------------------- C25
LEDPrecedence == <<"red", "amber", "blue", "green">>

\* The first status of the precedence that a module of S has, green for none.
WorstStatus(S) ==
  LET present == {i \in 1..4 : \E m \in S :
                    m.validation_status = LEDPrecedence[i]}
  IN  IF present = {} THEN "green"
      ELSE LEDPrecedence[CHOOSE i \in present : \A j \in present : i <= j]

\* C25 as stated: the LED status the toolbar shows is the worst validation
\* status among the loaded data modules, green when none is loaded.
C25_ToolbarLEDIsWorstStatus ==
  globalLEDStatus = WorstStatus(dataModules)

\* --------------------------------------------------------------------- C26
\* Steps in which the viewer or the toolbar sends a request that modifies or
\* deletes a data module.
DeleteSent == deleting = NoRef /\ deleting' # NoRef
FixSent == viewerPc = "fixing" /\ fixQ' # fixQ
UpdateSent ==
  \/ viewerPc = "idle" /\ viewerPc' = "reload"
  \/ viewerPc = "fixing" /\ viewerPc' = "applied"

\* C26 as stated: while the workspace is locked no step sends an update, a
\* fix-module or a delete request.
C26_LockedSendsNoModification ==
  [][locked => ~(DeleteSent \/ FixSent \/ UpdateSent)]_vars

\* --------------------------------------------------------------------- C27
\* C27 as stated: the hotspots shown for the selected ICN, and those saved
\* for an ICN, were loaded from that ICN or made while it was selected.
C27_HotspotsBelongToSelectedICN ==
  /\ selectedICN # NoSelection =>
       \A h \in hotspots : h.origin = selectedICN
  /\ \A icn \in ManagerIcns : \A h \in savedHotspots[icn] : h.origin = icn

\* --------------------------------------------------------------------- C28
\* C28 as stated: once an ICN is selected, historyIndex is an index of
\* hotspotHistory and the list shown is the entry at that index.
C28_HistoryIndexInRange ==
  selectedICN # NoSelection =>
    /\ 0 <= historyIndex /\ historyIndex < Len(hotspotHistory)
    /\ hotspots = hotspotHistory[historyIndex + 1]

\* --------------------------------------------------------------------- C29
\* An uploadDocument or processDocument call whose request has not settled.
RequestsInFlight ==
  \/ uploading # {}
  \/ \E d \in Docs : run[d].origin = "ui" /\ run[d].pc # "idle"

\* C29 as stated: the shared processing flag is true exactly while an upload
\* or process request is in flight.
C29_ProcessingWhileInFlight == processing <=> RequestsInFlight

\* --------------------------------------------------------------------- C30
\* C30 as stated: a content built from para, warning and caution elements
\* is given back by htmlToXml(xmlToHtml(x)).
C30_RoundTrip ==
  Nested(editorContent, 1, <<>>) =>
    htmlToXml(xmlToHtml(editorContent)) = editorContent

====
